---------------------------- MODULE Spec2Model ----------------------------
(***************************************************************************)
(* A model of the regex-based Python 2 -> Python 3 source converter of     *)
(* runtime-rs/sikulid_api/py2to3.py (class Py2To3Converter).               *)
(*                                                                         *)
(* convert_code is modelled step by step: one step per pattern of the      *)
(* rule list, in list order, then the removal of the __future__ imports.   *)
(* A client converts a document and then converts the returned text again; *)
(* a second thread may call convert_code on the same converter meanwhile.  *)
(* The module-level accessor get_converter and the other parts of the      *)
(* package that the specification speaks about have their own variables,   *)
(* actions and specifications further down.                                *)
(*                                                                         *)
(* A text is a sequence of one-character strings.  Every compiled pattern  *)
(* of _compile_patterns is modelled by a matcher that returns, for a text  *)
(* and a start position, the match Python's backtracking engine finds      *)
(* there (greedy quantifiers, MULTILINE anchors, \b, look-ahead), and      *)
(* pattern.sub is modelled by the left-to-right, non-overlapping scan of   *)
(* re.sub.                                                                 *)
(***************************************************************************)
EXTENDS Integers, Sequences, FiniteSets, TLC

VARIABLES
    source,   \* the argument of the first convert_code call
    result,   \* the local variable result of the running convert_code call
    step,     \* how many steps of the call are done: that many patterns of
              \* the list, and at NumPatterns + 1 the __future__ clean-up too
    pass,     \* 1: convert_code(source); 2: convert_code of its result
    first,    \* what the first call returned (<<>> while it runs)
    patterns, \* self._patterns of the converter: the list of the patterns,
              \* each given by its place in what _compile_patterns returns
    other,    \* a call of convert_code by another thread on the same
              \* converter: its argument, its local result, its steps done
    converter,   \* the module global _converter: None or the instance,
                 \* an instance being named by the order of its construction
    constructed, \* how many Py2To3Converter instances were constructed
    caller,      \* for each thread, where it is in get_converter(), the
                 \* instance it has constructed, and its calls so far
    returned,    \* the set of what get_converter() has returned so far
    files,       \* the file system: the text of each path, or NoFile
    stdout,      \* what has been written to sys.stdout
    stderr,      \* the messages written to sys.stderr, in order
    cli,         \* a run of main() or a call of convert_file(): its
                 \* arguments, its place, its locals and its outcome
    bundle_path, \* the module global _bundle_path
    image_paths, \* the module global _image_paths
    got,         \* the last call of an image path function: its name,
                 \* its argument, _image_paths before it, what it returned
    region,      \* a Region: its attributes x, y, w and h
    value,       \* the last method called on the Region: its name, the
                 \* Region before the call, the arguments, what it returned
    now,         \* time.time(), in scan intervals
    present,     \* whether the target is on the screen
    vanish       \* a call of waitVanish(): its timeout, its place, its
                 \* locals, what its polls saw and what it returned

\* the state of a Py2To3Converter and of the calls of its convert_code
convVars == <<source, result, step, pass, first, patterns, other>>

\* the accessor get_converter()
accessorVars == <<converter, constructed, caller, returned>>

\* the command line and the files
cliVars == <<files, stdout, stderr, cli>>

\* the image search path
imageVars == <<bundle_path, image_paths, got>>

\* a Region and what its methods return
regionVars == <<region, value>>

\* the screen, the clock and a call of waitVanish()
vanishVars == <<now, present, vanish>>

\* the scripting functions of the package
screenVars == <<imageVars, regionVars, vanishVars>>

\* the state of the rest of the package
apiVars == <<accessorVars, cliVars, screenVars>>

vars == <<convVars, apiVars>>

-----------------------------------------------------------------------------
(* Character classes of Python's re module (str patterns), restricted to   *)
(* the ASCII characters the documents of this model are written in.        *)

\* \s : whitespace
Space == {" ", "\t", "\n", "\r", "\f"}

\* \d : decimal digits
Digit == {"0", "1", "2", "3", "4", "5", "6", "7", "8", "9"}

\* \w : word characters
Word ==
    {"a", "b", "c", "d", "e", "f", "g", "h", "i", "j", "k", "l", "m",
     "n", "o", "p", "q", "r", "s", "t", "u", "v", "w", "x", "y", "z",
     "A", "B", "C", "D", "E", "F", "G", "H", "I", "J", "K", "L", "M",
     "N", "O", "P", "Q", "R", "S", "T", "U", "V", "W", "X", "Y", "Z",
     "_"} \cup Digit

-----------------------------------------------------------------------------
(* The literals of the patterns and of the replacement templates.          *)

KwPrint      == <<"p", "r", "i", "n", "t">>
KwXrange     == <<"x", "r", "a", "n", "g", "e">>
KwRange      == <<"r", "a", "n", "g", "e">>
KwRawInput   == <<"r", "a", "w", "_", "i", "n", "p", "u", "t">>
KwInput      == <<"i", "n", "p", "u", "t">>
KwExcept     == <<"e", "x", "c", "e", "p", "t">>
KwAs         == <<" ", "a", "s", " ">>
KwBasestring == <<"b", "a", "s", "e", "s", "t", "r", "i", "n", "g">>
KwUnicode    == <<"u", "n", "i", "c", "o", "d", "e">>
KwStr        == <<"s", "t", "r">>
KwNe         == <<"<", ">">>
KwNotEqual   == <<" ", "!", "=", " ">>
KwHasKey     == <<".", "h", "a", "s", "_", "k", "e", "y">>
KwIn         == <<" ", "i", "n", " ">>
KwIterItems  == <<".", "i", "t", "e", "r", "i", "t", "e", "m", "s">>
KwIterKeys   == <<".", "i", "t", "e", "r", "k", "e", "y", "s">>
KwIterValues == <<".", "i", "t", "e", "r", "v", "a", "l", "u", "e", "s">>
KwItems      == <<".", "i", "t", "e", "m", "s", "(", ")">>
KwKeys       == <<".", "k", "e", "y", "s", "(", ")">>
KwValues     == <<".", "v", "a", "l", "u", "e", "s", "(", ")">>
KwExecfile   == <<"e", "x", "e", "c", "f", "i", "l", "e">>
KwExecOpen   == <<"e", "x", "e", "c", "(", "o", "p", "e", "n", "(">>
KwRead       == <<")", ".", "r", "e", "a", "d", "(", ")", ")">>
KwRedirect   == <<">", ">">>
KwFile       == <<",", " ", "f", "i", "l", "e", "=">>
KwEnd        == <<",", " ", "e", "n", "d", "=", "\"", " ", "\"">>
KwFuture     == <<"f", "r", "o", "m", " ", "_", "_", "f", "u", "t", "u", "r",
                  "e", "_", "_", " ", "i", "m", "p", "o", "r", "t", " ">>

-----------------------------------------------------------------------------
(* Helpers on texts.                                                       *)

\* text[i:j] of Python with 1-based i and exclusive j
Slice(text, i, j) == SubSeq(text, i, j - 1)

\* the literal kw stands in text at position i
StartsAt(text, i, kw) ==
    /\ i >= 1
    /\ i + Len(kw) - 1 <= Len(text)
    /\ \A j \in 1..Len(kw) : text[i + j - 1] = kw[j]

\* the end of the greedy run C* from position i: the first position at or
\* after i whose character is not in C, or Len(text) + 1
RECURSIVE SkipWhile(_, _, _)
SkipWhile(text, i, C) ==
    IF i <= Len(text) /\ text[i] \in C THEN SkipWhile(text, i + 1, C) ELSE i

\* the first position at or after i that holds the character c, or Len(text) + 1
RECURSIVE FindChar(_, _, _)
FindChar(text, i, c) ==
    IF i <= Len(text) /\ text[i] # c THEN FindChar(text, i + 1, c) ELSE i

\* ^ under re.MULTILINE: at the start of the text or right after a newline
AtLineStart(text, i) == i = 1 \/ text[i - 1] = "\n"

\* $ under re.MULTILINE: at the end of the text or right before a newline
AtLineEnd(text, i) == i = Len(text) + 1 \/ (i <= Len(text) /\ text[i] = "\n")

\* \b before a word character at position i
WordStart(text, i) == i = 1 \/ text[i - 1] \notin Word

\* \b after a word character, at position i (the position that follows it)
WordEnd(text, i) == i = Len(text) + 1 \/ text[i] \notin Word

Max(S) == CHOOSE m \in S : \A n \in S : n <= m

Min(S) == CHOOSE m \in S : \A n \in S : m <= n

\* str.strip()
RECURSIVE RStrip(_)
RStrip(s) ==
    IF s # <<>> /\ s[Len(s)] \in Space THEN RStrip(SubSeq(s, 1, Len(s) - 1)) ELSE s

LStrip(s) == Slice(s, SkipWhile(s, 1, Space), Len(s) + 1)

Strip(s) == RStrip(LStrip(s))

\* a match object: ok, the exclusive end of the match, and its groups
NoMatch == [ok |-> FALSE, end |-> 0, g1 |-> <<>>, g2 |-> <<>>]

Matched(e, a, b) == [ok |-> TRUE, end |-> e, g1 |-> a, g2 |-> b]

-----------------------------------------------------------------------------
(* The print rules: patterns 0 and 1 of _compile_patterns.                 *)

\* ^(\s*)print  : the common head of both print patterns at position i.
\* \s* is greedy and "print" cannot start with whitespace, so only the
\* maximal run can be followed by the keyword.  The value is the position
\* after "print", or 0.
PrintHead(text, i) ==
    LET j == SkipWhile(text, i, Space)
    IN  IF AtLineStart(text, i) /\ StartsAt(text, j, KwPrint) THEN j + 5 ELSE 0

\* re.compile(r'^(\s*)print\s*$', re.MULTILINE)
\* The trailing \s* is greedy and gives characters back until $ holds:
\* the match ends at the last position of the whitespace run (its end
\* included) that is a line end.
MatchBarePrint(text, i) ==
    LET k    == PrintHead(text, i)
        m    == SkipWhile(text, k, Space)
        ends == {p \in k..m : AtLineEnd(text, p)}
    IN  IF k = 0 \/ ends = {} THEN NoMatch
        ELSE Matched(Max(ends), Slice(text, i, k - 5), <<>>)

\* the replacement r'print()', which forgets the captured indentation
ReplBarePrintNoIndent(m) == KwPrint \o <<"(", ")">>

\* r'\1print()'
ReplBarePrint(m) == m.g1 \o KwPrint \o <<"(", ")">>

\* re.compile(r'^(\s*)print\s+(?!\()(.+)$', re.MULTILINE)
\* \s+ is greedy and gives characters back (down to one) until the
\* look-ahead (?!\() holds and .+ finds a character that is not a newline;
\* .+ then runs to the end of that line, where $ holds.
MatchPrintArgs(text, i) ==
    LET k      == PrintHead(text, i)
        m      == SkipWhile(text, k, Space)
        starts == {q \in (k + 1)..m :
                     q <= Len(text) /\ text[q] # "(" /\ text[q] # "\n"}
        q      == Max(starts)
        r      == FindChar(text, q, "\n")
    IN  IF k = 0 \/ starts = {} THEN NoMatch
        ELSE Matched(r, Slice(text, i, k - 5), Slice(text, q, r))

\* redirect_match = re.match(r'>>\s*(\w+)\s*,\s*(.+)', content)
\* g1 is the stream name, g2 the arguments.  The last \s* gives characters
\* back until .+ finds a character that is not a newline.
MatchRedirect(content) ==
    LET w      == SkipWhile(content, 3, Space)
        j      == SkipWhile(content, w, Word)
        c      == SkipWhile(content, j, Space)
        d      == SkipWhile(content, c + 1, Space)
        starts == {q \in (c + 1)..d : q <= Len(content) /\ content[q] # "\n"}
        q      == Max(starts)
    IN  IF /\ StartsAt(content, 1, KwRedirect)
           /\ j > w
           /\ StartsAt(content, c, <<",">>)
           /\ starts # {}
        THEN Matched(FindChar(content, q, "\n"), Slice(content, w, j),
                     Slice(content, q, FindChar(content, q, "\n")))
        ELSE NoMatch

\* _convert_print without the indentation in its last return value
ConvertPrintDropsIndent(m) ==
    LET stripped == Strip(m.g2)
    IN  IF stripped # <<>> /\ stripped[Len(stripped)] = ","
        THEN m.g1 \o KwPrint \o <<"(">>
               \o Strip(SubSeq(stripped, 1, Len(stripped) - 1)) \o KwEnd \o <<")">>
        ELSE KwPrint \o <<"(">> \o stripped \o <<")">>

\* _convert_print that detects the trailing comma but leaves it in content
ConvertPrintKeepsComma(m) ==
    LET stripped == Strip(m.g2)
    IN  IF stripped # <<>> /\ stripped[Len(stripped)] = ","
        THEN m.g1 \o KwPrint \o <<"(">> \o stripped \o KwEnd \o <<")">>
        ELSE m.g1 \o KwPrint \o <<"(">> \o stripped \o <<")">>

\* _convert_print that reads redirect_match.group(1) without the test
\* `if redirect_match:`: on None that raises AttributeError, shown here as
\* a replacement that is no text
ConvertPrintUnguarded(m) ==
    LET indent         == m.g1
        stripped       == Strip(m.g2)
        trailing_comma == stripped # <<>> /\ stripped[Len(stripped)] = ","
        content        == IF trailing_comma
                          THEN Strip(SubSeq(stripped, 1, Len(stripped) - 1))
                          ELSE stripped
        redirect_match == MatchRedirect(content)
        file_obj       == redirect_match.g1
        args           == redirect_match.g2
    IN  IF redirect_match.ok
        THEN IF trailing_comma
             THEN indent \o KwPrint \o <<"(">> \o args \o KwFile \o file_obj
                    \o KwEnd \o <<")">>
             ELSE indent \o KwPrint \o <<"(">> \o args \o KwFile \o file_obj
                    \o <<")">>
        ELSE <<"AttributeError">>

\* Py2To3Converter._convert_print(match)
ConvertPrint(m) ==
    LET indent         == m.g1
        stripped       == Strip(m.g2)
        trailing_comma == stripped # <<>> /\ stripped[Len(stripped)] = ","
        content        == IF trailing_comma
                          THEN Strip(SubSeq(stripped, 1, Len(stripped) - 1))
                          ELSE stripped
        redirect_match == MatchRedirect(content)
        file_obj       == redirect_match.g1
        args           == redirect_match.g2
    IN  IF redirect_match.ok
        THEN IF trailing_comma
             THEN indent \o KwPrint \o <<"(">> \o args \o KwFile \o file_obj
                    \o KwEnd \o <<")">>
             ELSE indent \o KwPrint \o <<"(">> \o args \o KwFile \o file_obj
                    \o <<")">>
        ELSE IF trailing_comma
             THEN indent \o KwPrint \o <<"(">> \o content \o KwEnd \o <<")">>
             ELSE indent \o KwPrint \o <<"(">> \o content \o <<")">>

-----------------------------------------------------------------------------
(* The remaining patterns of _compile_patterns, in list order.             *)

\* NAME\s*\(  without the opening \b
MatchCallPrefixAnywhere(text, i, name) ==
    LET j == SkipWhile(text, i + Len(name), Space)
    IN  IF /\ StartsAt(text, i, name)
           /\ StartsAt(text, j, <<"(">>)
        THEN Matched(j + 1, <<>>, <<>>)
        ELSE NoMatch

\* \bNAME\s*\(  for a NAME made of word characters (xrange, raw_input,
\* unicode): the match runs up to and including the parenthesis.
MatchCallPrefix(text, i, name) ==
    LET j == SkipWhile(text, i + Len(name), Space)
    IN  IF /\ StartsAt(text, i, name)
           /\ WordStart(text, i)
           /\ StartsAt(text, j, <<"(">>)
        THEN Matched(j + 1, <<>>, <<>>)
        ELSE NoMatch

\* re.compile(r'\bxrange\s*\(')
MatchXrange(text, i) == MatchCallPrefix(text, i, KwXrange)

\* re.compile(r'\braw_input\s*\(')
MatchRawInput(text, i) == MatchCallPrefix(text, i, KwRawInput)

\* \w+(?:\.\w+)* from position i: the end of the longest dotted chain
RECURSIVE DottedEnd(_, _)
DottedEnd(text, i) ==
    LET j == SkipWhile(text, i, Word)
    IN  IF /\ j > i
           /\ StartsAt(text, j, <<".">>)
           /\ SkipWhile(text, j + 1, Word) > j + 1
        THEN DottedEnd(text, j + 1)
        ELSE j

\* the except pattern with (\w+) for the exception: no dotted names
MatchExceptSimpleName(text, i) ==
    LET a == SkipWhile(text, i + 6, Space)
        b == SkipWhile(text, a, Word)
        c == SkipWhile(text, b, Space)
        d == SkipWhile(text, c + 1, Space)
        e == SkipWhile(text, d, Word)
        f == SkipWhile(text, e, Space)
    IN  IF /\ StartsAt(text, i, KwExcept)
           /\ a > i + 6
           /\ b > a
           /\ StartsAt(text, c, <<",">>)
           /\ e > d
           /\ StartsAt(text, f, <<":">>)
        THEN Matched(f + 1, Slice(text, a, b), Slice(text, d, e))
        ELSE NoMatch

\* re.compile(r'except\s+(\w+(?:\.\w+)*)\s*,\s*(\w+)\s*:')
\* Every quantified part is followed by a character it cannot match, so
\* only the greedy choice can succeed.
MatchExcept(text, i) ==
    LET a == SkipWhile(text, i + 6, Space)
        b == DottedEnd(text, a)
        c == SkipWhile(text, b, Space)
        d == SkipWhile(text, c + 1, Space)
        e == SkipWhile(text, d, Word)
        f == SkipWhile(text, e, Space)
    IN  IF /\ StartsAt(text, i, KwExcept)
           /\ a > i + 6
           /\ b > a
           /\ StartsAt(text, c, <<",">>)
           /\ e > d
           /\ StartsAt(text, f, <<":">>)
        THEN Matched(f + 1, Slice(text, a, b), Slice(text, d, e))
        ELSE NoMatch

\* r'except \1 as \2:'
ReplExcept(m) == KwExcept \o <<" ">> \o m.g1 \o KwAs \o m.g2 \o <<":">>

\* \b(\d+)[Ll] without the closing \b
MatchLongNoWordEnd(text, i) ==
    LET j == SkipWhile(text, i, Digit)
    IN  IF /\ i <= Len(text)
           /\ j > i
           /\ WordStart(text, i)
           /\ j <= Len(text)
           /\ text[j] \in {"L", "l"}
        THEN Matched(j + 1, Slice(text, i, j), <<>>)
        ELSE NoMatch

\* re.compile(r'\b(\d+)[Ll]\b')
MatchLong(text, i) ==
    LET j == SkipWhile(text, i, Digit)
    IN  IF /\ i <= Len(text)
           /\ j > i
           /\ WordStart(text, i)
           /\ j <= Len(text)
           /\ text[j] \in {"L", "l"}
           /\ WordEnd(text, j + 1)
        THEN Matched(j + 1, Slice(text, i, j), <<>>)
        ELSE NoMatch

\* re.compile(r'\bbasestring\b')
MatchBasestring(text, i) ==
    IF /\ StartsAt(text, i, KwBasestring)
       /\ WordStart(text, i)
       /\ WordEnd(text, i + 10)
    THEN Matched(i + 10, <<>>, <<>>)
    ELSE NoMatch

\* re.compile(r'\bunicode\s*\(')
MatchUnicode(text, i) == MatchCallPrefix(text, i, KwUnicode)

\* <> alone, without the \s* on either side
MatchNotEqualKeepsBlanks(text, i) ==
    IF StartsAt(text, i, KwNe) THEN Matched(i + 2, <<>>, <<>>) ELSE NoMatch

\* re.compile(r'\s*<>\s*')
MatchNotEqual(text, i) ==
    LET j == SkipWhile(text, i, Space)
    IN  IF StartsAt(text, j, KwNe)
        THEN Matched(SkipWhile(text, j + 2, Space), <<>>, <<>>)
        ELSE NoMatch

\* \s*\(\s*([^)]+)\s*\)  from position i (after the method or function
\* name).  [^)]+ is greedy and takes whitespace and newlines too, so the
\* group runs from the first character after the leading whitespace to the
\* next ")"; when that character is itself the ")", the leading \s* gives
\* back its last whitespace character to the group.  g1 is the group.
MatchParenArg(text, i) ==
    LET a == SkipWhile(text, i, Space)
        w == SkipWhile(text, a + 1, Space)
        r == FindChar(text, w, ")")
    IN  IF ~StartsAt(text, a, <<"(">>) \/ r > Len(text) THEN NoMatch
        ELSE IF r > w THEN Matched(r + 1, Slice(text, w, r), <<>>)
        ELSE IF w > a + 1 THEN Matched(r + 1, Slice(text, w - 1, r), <<>>)
        ELSE NoMatch

\* re.compile(r'(\w+)\.has_key\s*\(\s*([^)]+)\s*\)')
\* (\w+) is greedy and must be followed by ".", which is no word character:
\* the receiver group is the run of word characters from i.
MatchHasKey(text, i) ==
    LET j == SkipWhile(text, i, Word)
        p == MatchParenArg(text, j + 8)
    IN  IF j > i /\ StartsAt(text, j, KwHasKey) /\ p.ok
        THEN Matched(p.end, Slice(text, i, j), p.g1)
        ELSE NoMatch

\* r'(\2 in \1)'
ReplHasKey(m) == <<"(">> \o m.g2 \o KwIn \o m.g1 \o <<")">>

\* \.NAME\(\)  without the \s* before and inside the parentheses
MatchEmptyCallNoBlanks(text, i, name) ==
    IF StartsAt(text, i, name \o <<"(", ")">>)
    THEN Matched(i + Len(name) + 2, <<>>, <<>>)
    ELSE NoMatch

\* \.NAME\s*\(\s*\)  for iteritems, iterkeys, itervalues
MatchEmptyCall(text, i, name) ==
    LET a == SkipWhile(text, i + Len(name), Space)
        b == SkipWhile(text, a + 1, Space)
    IN  IF /\ StartsAt(text, i, name)
           /\ StartsAt(text, a, <<"(">>)
           /\ StartsAt(text, b, <<")">>)
        THEN Matched(b + 1, <<>>, <<>>)
        ELSE NoMatch

\* re.compile(r'\.iteritems\s*\(\s*\)')
MatchIterItems(text, i) == MatchEmptyCall(text, i, KwIterItems)

\* re.compile(r'\.iterkeys\s*\(\s*\)')
MatchIterKeys(text, i) == MatchEmptyCall(text, i, KwIterKeys)

\* re.compile(r'\.itervalues\s*\(\s*\)')
MatchIterValues(text, i) == MatchEmptyCall(text, i, KwIterValues)

\* re.compile(r'\bexecfile\s*\(\s*([^)]+)\s*\)')
MatchExecfile(text, i) ==
    LET p == MatchParenArg(text, i + 8)
    IN  IF StartsAt(text, i, KwExecfile) /\ WordStart(text, i) /\ p.ok
        THEN Matched(p.end, p.g1, <<>>)
        ELSE NoMatch

\* r'exec(open(\1).read())'
ReplExecfile(m) == KwExecOpen \o m.g1 \o KwRead

\* r'^from __future__ import [^\n]+\n' with flags=re.MULTILINE
MatchFuture(text, i) ==
    LET r == FindChar(text, i + 23, "\n")
    IN  IF /\ AtLineStart(text, i)
           /\ StartsAt(text, i, KwFuture)
           /\ r > i + 23
           /\ r <= Len(text)
        THEN Matched(r + 1, <<>>, <<>>)
        ELSE NoMatch

-----------------------------------------------------------------------------
(* The rule list and pattern.sub.                                          *)

\* the number of (pattern, replacement) pairs _compile_patterns returns
NumPatterns == 14

\* the pattern of the k-th pair (1-based), tried at position i
Match(k, text, i) ==
    CASE k = 1  -> MatchBarePrint(text, i)
      [] k = 2  -> MatchPrintArgs(text, i)
      [] k = 3  -> MatchXrange(text, i)
      [] k = 4  -> MatchRawInput(text, i)
      [] k = 5  -> MatchExcept(text, i)
      [] k = 6  -> MatchLong(text, i)
      [] k = 7  -> MatchBasestring(text, i)
      [] k = 8  -> MatchUnicode(text, i)
      [] k = 9  -> MatchNotEqual(text, i)
      [] k = 10 -> MatchHasKey(text, i)
      [] k = 11 -> MatchIterItems(text, i)
      [] k = 12 -> MatchIterKeys(text, i)
      [] k = 13 -> MatchIterValues(text, i)
      [] k = 14 -> MatchExecfile(text, i)
      [] k = 15 -> MatchFuture(text, i)

\* the replacement of the k-th pair, expanded for the match m
Replacement(k, m) ==
    CASE k = 1  -> ReplBarePrint(m)
      [] k = 2  -> ConvertPrint(m)
      [] k = 3  -> KwRange \o <<"(">>
      [] k = 4  -> KwInput \o <<"(">>
      [] k = 5  -> ReplExcept(m)
      [] k = 6  -> m.g1
      [] k = 7  -> KwStr
      [] k = 8  -> KwStr \o <<"(">>
      [] k = 9  -> KwNotEqual
      [] k = 10 -> ReplHasKey(m)
      [] k = 11 -> KwItems
      [] k = 12 -> KwKeys
      [] k = 13 -> KwValues
      [] k = 14 -> ReplExecfile(m)
      [] k = 15 -> <<>>

\* pattern.sub(replacement, text): scan from the left; at the leftmost
\* position where the pattern matches, emit the text before it and the
\* replacement, and go on after the match; copy the text after the last
\* match.  No pattern of the list matches the empty string.
RECURSIVE SubFrom(_, _, _)
SubFrom(k, text, i) ==
    LET found == {p \in i..Len(text) : Match(k, text, p).ok}
        p     == Min(found)
        m     == Match(k, text, p)
    IN  IF found = {} THEN Slice(text, i, Len(text) + 1)
        ELSE Slice(text, i, p) \o Replacement(k, m) \o SubFrom(k, text, m.end)

Sub(k, text) == SubFrom(k, text, 1)

\* for pattern, replacement in self._patterns: result = pattern.sub(...)
RECURSIVE ApplyPatterns(_, _)
ApplyPatterns(k, text) ==
    IF k > NumPatterns THEN text ELSE ApplyPatterns(k + 1, Sub(k, text))

\* result = re.sub(r'^from __future__ import [^\n]+\n', '', result, ...)
RemoveFuture(text) == Sub(15, text)

\* Py2To3Converter.convert_code(source)
convert_code(s) == RemoveFuture(ApplyPatterns(1, s))

-----------------------------------------------------------------------------
(* The rest of the package, at rest while convert_code runs.               *)

\* _converter = None
None == 0

\* the threads that call get_converter()
NumThreads == 2

\* the calls of get_converter() each thread makes
MaxCalls == 2

Threads == 1..NumThreads

\* the accessor before any call, each thread having done calls calls
AccessorStart(calls) ==
    /\ converter = None
    /\ constructed = 0
    /\ caller = [t \in Threads |-> [pc |-> "idle", made |-> None, calls |-> calls]]
    /\ returned = {}

\* output_path=None, and args.output when the argument is omitted
Omitted == "<None>"

\* a path with no file
NoFile == <<"ENOENT">>

\* the paths of the file system
Paths == {"in.py", "out.py", "gone.py"}

\* a run or call that is over (or none), with the files as they are
CliStart(kind, pc, input, output, verbose, stdin) ==
    /\ stdout = <<>>
    /\ stderr = <<>>
    /\ cli = [kind |-> kind, pc |-> pc, input |-> input, output |-> output,
              verbose |-> verbose, stdin |-> stdin, text |-> <<>>,
              before |-> files, written |-> {}, failed |-> FALSE,
              exit |-> 0, ret |-> <<>>]

\* no file, no run of main() and no call of convert_file()
CliIdle ==
    /\ files = [p \in Paths |-> NoFile]
    /\ CliStart("none", "done", "-", "-", FALSE, <<>>)

\* _bundle_path = None
NoPath == "<None>"

\* _bundle_path = None, _image_paths = [], no function called
ImageStart ==
    /\ bundle_path = NoPath
    /\ image_paths = <<>>
    /\ got = [op |-> "none", arg |-> NoPath, before |-> <<>>, ret |-> <<>>]

\* Region(x, y, w, h)
Region(x, y, w, h) == [x |-> x, y |-> y, w |-> w, h |-> h]

\* the Region Region(), and no method called on it
RegionIdle ==
    /\ region = Region(0, 0, 0, 0)
    /\ value = [op |-> "none", self |-> region, args |-> <<>>, ret |-> 0]

\* a call of waitVanish(target, timeout) at the place pc
VanishStart(pc, timeout) ==
    /\ now = 0
    /\ vanish = [pc |-> pc, timeout |-> timeout, start |-> 0, polls |-> <<>>,
                 absent |-> ~present, ret |-> FALSE]

\* nothing on the screen and no call of waitVanish()
VanishIdle == present = FALSE /\ VanishStart("none", 0)

\* no scripting function is in use
ScreenIdle == ImageStart /\ RegionIdle /\ VanishIdle

\* nothing of the rest of the package is in use
ApiIdle == AccessorStart(MaxCalls) /\ CliIdle /\ ScreenIdle

-----------------------------------------------------------------------------
(* The state machine: a client calls convert_code(source), then calls      *)
(* convert_code again on what the first call returned.                     *)

\* self._patterns = self._compile_patterns()
CompiledPatterns == [k \in 1..NumPatterns |-> k]

\* no call by another thread: one that has returned, of the empty string
NoCall == [source |-> <<>>, result |-> <<>>, step |-> NumPatterns + 1]

\* result = source, before the loop, on a converter just constructed
Start(inputs) ==
    /\ source \in inputs
    /\ result = source
    /\ step = 0
    /\ pass = 1
    /\ first = <<>>
    /\ patterns = CompiledPatterns
    /\ other = NoCall
    /\ ApiIdle

\* a loop in which every pattern scans the source, not the text the
\* previous pattern produced
ApplyPatternToSource ==
    /\ step < Len(patterns)
    /\ result' = Sub(patterns[step + 1], source)
    /\ step' = step + 1
    /\ UNCHANGED <<source, pass, first, patterns, other>>
    /\ UNCHANGED apiVars

\* a loop that takes each pattern off the list as it applies it
ApplyPatternConsumes ==
    /\ step < Len(patterns)
    /\ result' = Sub(patterns[step + 1], result)
    /\ step' = step + 1
    /\ patterns' = Tail(patterns)
    /\ UNCHANGED <<source, pass, first, other>>
    /\ UNCHANGED apiVars

\* one iteration of the loop over self._patterns
ApplyPattern ==
    /\ step < Len(patterns)
    /\ result' = Sub(patterns[step + 1], result)
    /\ step' = step + 1
    /\ UNCHANGED <<source, pass, first, patterns, other>>
    /\ UNCHANGED apiVars

\* the re.sub that removes the __future__ imports; the call then returns
StripFuture ==
    /\ step = Len(patterns)
    /\ result' = RemoveFuture(result)
    /\ step' = NumPatterns + 1
    /\ UNCHANGED <<source, pass, first, patterns, other>>
    /\ UNCHANGED apiVars

\* the client passes the returned text to convert_code again
ConvertAgain ==
    /\ step = NumPatterns + 1
    /\ pass = 1
    /\ first' = result
    /\ pass' = 2
    /\ step' = 0
    /\ UNCHANGED <<source, result, patterns, other>>
    /\ UNCHANGED apiVars

Next == ApplyPattern \/ StripFuture \/ ConvertAgain

\* the first call has returned
Returned == pass = 1 /\ step = NumPatterns + 1

\* the second call has returned
ReturnedAgain == pass = 2 /\ step = NumPatterns + 1

-----------------------------------------------------------------------------
(* Documents: the inputs of the checks.                                    *)

\* the longest run of blanks in an indentation or between two tokens
MaxWs == 2

\* the most lines a document has before, and after, the line under study
MaxContext == 1

RECURSIVE Spaces(_)
Spaces(n) == IF n = 0 THEN <<>> ELSE <<" ">> \o Spaces(n - 1)

\* non-empty runs of blanks: 1..MaxWs spaces, or a tab
WsRuns == {Spaces(n) : n \in 1..MaxWs} \cup {<<"\t">>}

Indents == {<<>>} \cup WsRuns

\* "\n".join(lines)
RECURSIVE JoinLines(_)
JoinLines(lines) ==
    IF lines = <<>> THEN <<>>
    ELSE IF Len(lines) = 1 THEN lines[1]
    ELSE lines[1] \o <<"\n">> \o JoinLines(Tail(lines))

\* text.split("\n")
RECURSIVE SplitLines(_)
SplitLines(text) ==
    LET r == FindChar(text, 1, "\n")
    IN  IF r > Len(text) THEN <<text>>
        ELSE <<Slice(text, 1, r)>> \o SplitLines(Slice(text, r + 1, Len(text) + 1))

\* the lines of a text that are not empty, in order
NonBlank(text) == SelectSeq(SplitLines(text), LAMBDA l : l # <<>>)

\* all sequences of at most n lines drawn from the set lines
RECURSIVE LinesUpTo(_, _)
LinesUpTo(lines, n) ==
    IF n = 0 THEN {<<>>}
    ELSE LET shorter == LinesUpTo(lines, n - 1)
         IN  shorter \cup {Append(b, l) : b \in shorter, l \in lines}

\* the documents made of one line of subjects with at most MaxContext
\* lines of before in front of it and of after behind it (a final empty
\* line is a document that ends with a newline)
Docs(subjects, before, after) ==
    {JoinLines(b \o <<l>> \o a) :
        b \in LinesUpTo(before, MaxContext),
        l \in subjects,
        a \in LinesUpTo(after, MaxContext)}

\* lines no pattern matches: an assignment-free name, and the empty line
PlainLines == {<<"y">>, <<>>}

-----------------------------------------------------------------------------
(* Print statements.                                                       *)

\* <indent>print<sep><args>
PrintLine(indent, sep, args) == indent \o KwPrint \o sep \o args

\* <indent>print(<args>)
PrintCall(indent, args) == indent \o KwPrint \o <<"(">> \o args \o <<")">>

\* argument texts no other pattern touches
ArgsPlain == {<<"x">>, <<"x", ",", " ", "y">>}

\* an argument text the long-literal pattern rewrites later
ArgsLegacy == {<<"1", "L">>}

\* optional blanks at the end of a line
Trails == {<<>>, <<" ">>}

\* argument texts before a trailing comma: a name, a name and a blank, a
\* name and a comma
ArgsBeforeComma == {<<"x">>, <<"x", " ">>, <<"x", ",">>}

\* argument texts that begin with an opening parenthesis
ArgsParen == {<<"(", "x", ")">>}

\* stream expressions of a redirect: a name, a dotted name
Streams == {<<"f">>, <<"a", ".", "b">>}

Gaps == {<<>>, <<" ">>}

\* >> <stream>, <rest>
RedirectArgs(stream, gap, rest) ==
    KwRedirect \o gap \o stream \o <<",">> \o gap \o rest

ArgsRedirect ==
    {RedirectArgs(<<"f">>, gap, <<"x">>) : gap \in Gaps}
        \cup {RedirectArgs(<<"a", ".", "b">>, <<" ">>, <<"x">>)}

\* the statements of the print documents
PrintStatements ==
    {indent \o KwPrint : indent \in Indents}
        \cup {PrintLine(indent, sep, args) :
                indent \in Indents, sep \in WsRuns,
                args \in ArgsPlain \cup ArgsLegacy \cup ArgsParen
                           \cup {<<"x", " ">>}
                           \cup {a \o <<",">> : a \in ArgsBeforeComma}
                           \cup ArgsRedirect
                           \cup {a \o <<",">> : a \in ArgsRedirect}}

PrintDocs ==
    Docs(PrintStatements, PlainLines \cup {<<"p", "r", "i", "n", "t", " ", "z">>},
         PlainLines)

InitPrint == Start(PrintDocs)

SpecPrint == InitPrint /\ [][Next]_vars

\* if line r of the non-blank lines src of the source is `line`, the same
\* line of the non-blank lines res of the running result is `expected`
Rewritten(src, res, r, line, expected) ==
    src[r] = line => (r \in DOMAIN res /\ res[r] = expected)

\* C2: when convert_code has returned, every line
\* `<indent>print >> <stream>, <rest>` of the source, for a simple and for
\* a dotted stream name, is `<indent>print(<rest>, file=<stream>)`.
C2_PrintRedirect ==
    Returned =>
        LET src == NonBlank(source)
            res == NonBlank(result)
        IN  \A r \in DOMAIN src :
          \A indent \in Indents, sep \in WsRuns, stream \in Streams, gap \in Gaps :
            Rewritten(src, res, r,
                PrintLine(indent, sep, RedirectArgs(stream, gap, <<"x">>)),
                PrintCall(indent, <<"x">> \o KwFile \o stream))

\* C3: once the print pattern has been applied, every line
\* `<indent>print <args>` of the source whose <args> is not empty, does not
\* begin with "(", does not end with a comma and is no redirect (with or
\* without blanks after it) is `<indent>print(<args>)`, in a document of
\* several lines too; and it still is when convert_code returns unless a
\* later pattern matches inside <args>.
C3_PrintWithArgs ==
    /\ (pass = 1 /\ step = 2) =>
          LET src == NonBlank(source)
              res == NonBlank(result)
          IN  \A r \in DOMAIN src :
            \A indent \in Indents, sep \in WsRuns, trail \in Trails,
               args \in ArgsPlain \cup ArgsLegacy :
                 Rewritten(src, res, r, PrintLine(indent, sep, args) \o trail,
                           PrintCall(indent, args))
    /\ Returned =>
          LET src == NonBlank(source)
              res == NonBlank(result)
          IN  \A r \in DOMAIN src :
            \A indent \in Indents, sep \in WsRuns, trail \in Trails,
               args \in ArgsPlain :
                 Rewritten(src, res, r, PrintLine(indent, sep, args) \o trail,
                           PrintCall(indent, args))

\* C3 witness: an indented print statement with two arguments on the second
\* line of a document has been rewritten in place.
C3_Witness ==
    /\ Returned
    /\ Len(NonBlank(source)) >= 2
    /\ NonBlank(source)[2] = PrintLine(<<" ">>, <<" ">>, <<"x", ",", " ", "y">>)
    /\ NonBlank(result)[2] = PrintCall(<<" ">>, <<"x", ",", " ", "y">>)
    /\ NonBlank(result)[1] = NonBlank(source)[1]

\* C4: when convert_code has returned, every line `<indent>print<ws>(...)`,
\* for every non-empty run <ws> of blanks, is unchanged.
C4_PrintGuard ==
    Returned =>
        LET src == NonBlank(source)
            res == NonBlank(result)
        IN  \A r \in DOMAIN src :
          \A indent \in Indents, sep \in WsRuns, args \in ArgsParen :
            Rewritten(src, res, r, PrintLine(indent, sep, args),
                      PrintLine(indent, sep, args))

\* C5: when convert_code has returned, every print statement whose argument
\* text ends with a comma (and is no redirect) has lost exactly that comma
\* and is `<indent>print(<args-without-comma>, end=" ")`, the blanks around
\* the remaining text stripped; and a print statement whose argument text
\* does not end with a comma has no `end=` argument.
C5_TrailingComma ==
    Returned =>
        LET src == NonBlank(source)
            res == NonBlank(result)
        IN  \A r \in DOMAIN src :
          \A indent \in Indents, sep \in WsRuns, trail \in Trails :
            /\ \A args \in ArgsBeforeComma :
                 Rewritten(src, res, r, PrintLine(indent, sep, args \o <<",">>) \o trail,
                           PrintCall(indent, Strip(args) \o KwEnd))
            /\ \A args \in ArgsPlain \cup ArgsLegacy \cup ArgsParen \cup ArgsRedirect :
                 src[r] = PrintLine(indent, sep, args) \o trail =>
                   /\ r \in DOMAIN res
                   /\ \A i \in DOMAIN res[r] : ~StartsAt(res[r], i, KwEnd)

\* C5 witness: `print x,,` has become `print(x,, end=" ")`.
C5_Witness ==
    /\ Returned
    /\ source = PrintLine(<<>>, <<" ">>, <<"x", ",", ",">>)
    /\ result = PrintCall(<<>>, <<"x", ",">> \o KwEnd)

\* C6: when convert_code has returned, every line
\* `<indent>print >> <stream>, <rest>,` of the source is
\* `<indent>print(<rest>, file=<stream>, end=" ")`.
C6_RedirectTrailingComma ==
    Returned =>
        LET src == NonBlank(source)
            res == NonBlank(result)
        IN  \A r \in DOMAIN src :
          \A indent \in Indents, sep \in WsRuns, stream \in Streams, gap \in Gaps :
            Rewritten(src, res, r,
                PrintLine(indent, sep,
                          RedirectArgs(stream, gap, <<"x">>) \o <<",">>),
                PrintCall(indent, <<"x">> \o KwFile \o stream \o KwEnd))

\* C7: from the moment the first pattern (the bare print pattern) has been
\* applied, and so before the print-with-arguments pattern runs, every line
\* that is only `<indent>print` is `<indent>print()`, and it stays so until
\* convert_code returns.
C7_BarePrint ==
    (pass = 1 /\ step >= 1) =>
        LET src == NonBlank(source)
            res == NonBlank(result)
        IN  \A r \in DOMAIN src :
          \A indent \in Indents :
            Rewritten(src, res, r, indent \o KwPrint, PrintCall(indent, <<>>))

\* C7 witness: a tab-indented bare print after another line is rewritten as
\* soon as the first pattern has been applied.
C7_Witness ==
    /\ pass = 1
    /\ step = 1
    /\ Len(NonBlank(source)) >= 2
    /\ NonBlank(source)[2] = <<"\t">> \o KwPrint
    /\ NonBlank(result)[2] = PrintCall(<<"\t">>, <<>>)

-----------------------------------------------------------------------------
(* __future__ imports.                                                     *)

\* from __future__ import <names>
FutureLines == {KwFuture \o <<"x">>, KwFuture \o <<"x", ",", " ", "y">>}

\* an indented import does not begin the line with the directive
IndentedFuture == <<" ">> \o KwFuture \o <<"x">>

FutureDocs ==
    Docs(FutureLines, PlainLines \cup {IndentedFuture},
         PlainLines \cup {KwFuture \o <<"z">>})

InitFuture == Start(FutureDocs)

SpecFuture == InitFuture /\ [][Next]_vars

\* the lines of a text, each with its newline when it has one, without the
\* lines that begin with the directive
RECURSIVE WithoutFutureLines(_)
WithoutFutureLines(text) ==
    LET r    == FindChar(text, 1, "\n")
        line == Slice(text, 1, r)
        kept == IF StartsAt(line, 1, KwFuture) THEN <<>>
                ELSE Slice(text, 1, IF r > Len(text) THEN r ELSE r + 1)
    IN  IF r > Len(text) THEN kept
        ELSE kept \o WithoutFutureLines(Slice(text, r + 1, Len(text) + 1))

\* C8: when convert_code has returned, the result is the source without its
\* lines that begin with `from __future__ import` (first, middle or last
\* line, the last one with or without a newline): each such line is gone
\* with its newline and every other line is unchanged.
C8_FutureStripped == Returned => result = WithoutFutureLines(source)

-----------------------------------------------------------------------------
(* has_key and execfile calls.                                             *)

\* receivers of a has_key call: a name, a dotted name
Receivers == {<<"d">>, <<"s", ".", "d">>}

Keys == {<<"k">>, <<"\"", "a", "\"">>}

\* <expr>.has_key(<key>)
HasKeyCall(recv, key) == recv \o KwHasKey \o <<"(">> \o key \o <<")">>

\* (<key> in <expr>)
InTest(recv, key) == <<"(">> \o key \o KwIn \o recv \o <<")">>

\* text before and after the call on its line
Befores == {<<>>, <<"i", "f", " ">>, <<"z", "=">>}

Afters == {<<>>, <<":">>}

HasKeyLines ==
    {pre \o HasKeyCall(recv, key) \o post :
        pre \in Befores, recv \in Receivers, key \in Keys, post \in Afters}

\* calls whose argument is itself such a call
NestedCalls ==
    {HasKeyCall(<<"d">>, HasKeyCall(<<"e">>, <<"k">>)),
     KwExecfile \o <<"(">> \o KwExecfile \o <<"(", "x", ")", ")">>,
     KwExecfile \o <<"(">> \o HasKeyCall(<<"d">>, <<"k">>) \o <<")">>}

HasKeyDocs == Docs(HasKeyLines \cup NestedCalls, PlainLines, PlainLines)

InitHasKey == Start(HasKeyDocs)

SpecHasKey == InitHasKey /\ [][Next]_vars

\* C9: when convert_code has returned, every `<expr>.has_key(<key>)` of the
\* source, for a name and for a dotted name <expr>, is `(<key> in <expr>)`
\* with the text around it unchanged.
C9_HasKey ==
    Returned =>
        LET src == NonBlank(source)
            res == NonBlank(result)
        IN  \A r \in DOMAIN src :
          \A pre \in Befores, recv \in Receivers, key \in Keys, post \in Afters :
            Rewritten(src, res, r, pre \o HasKeyCall(recv, key) \o post,
                      pre \o InTest(recv, key) \o post)

-----------------------------------------------------------------------------
(* except clauses.                                                         *)

\* exception expressions: a name and dotted chains of names
Exceptions == {<<"E">>, <<"a", ".", "b">>, <<"a", ".", "b", ".", "c">>}

\* except <ExceptionExpr>, <name>:  with blanks around the comma and before
\* the colon
ExceptComma(indent, sep, exc, gap) ==
    indent \o KwExcept \o sep \o exc \o gap \o <<",">> \o gap \o <<"e">>
        \o gap \o <<":">>

\* except <ExceptionExpr> as <name>:
ExceptAs(indent, sep, exc) ==
    indent \o KwExcept \o sep \o exc \o KwAs \o <<"e">> \o <<":">>

ExceptLines ==
    {ExceptComma(indent, sep, exc, gap) :
        indent \in Indents, sep \in WsRuns, exc \in Exceptions, gap \in Gaps}
      \cup {ExceptAs(indent, sep, exc) :
              indent \in Indents, sep \in WsRuns, exc \in Exceptions}

ExceptDocs == Docs(ExceptLines, PlainLines, PlainLines)

InitExcept == Start(ExceptDocs)

SpecExcept == InitExcept /\ [][Next]_vars

\* C10: when convert_code has returned, every
\* `except <ExceptionExpr>, <name>:` of the source whose expression is a
\* name or a dotted chain of names is `except <ExceptionExpr> as <name>:`
\* with the same expression and name, and every except clause that uses
\* `as` is unchanged.
C10_ExceptBinding ==
    Returned =>
        LET src == NonBlank(source)
            res == NonBlank(result)
        IN  \A r \in DOMAIN src :
          \A indent \in Indents, sep \in WsRuns, exc \in Exceptions :
            /\ \A gap \in Gaps :
                 Rewritten(src, res, r, ExceptComma(indent, sep, exc, gap),
                           ExceptAs(indent, <<" ">>, exc))
            /\ Rewritten(src, res, r, ExceptAs(indent, sep, exc), ExceptAs(indent, sep, exc))

\* C10 witness: `except a.b.c , e :` on an indented line has become
\* `except a.b.c as e:`.
C10_Witness ==
    /\ Returned
    /\ source = ExceptComma(<<" ">>, <<" ">>, <<"a", ".", "b", ".", "c">>, <<" ">>)
    /\ result = ExceptAs(<<" ">>, <<" ">>, <<"a", ".", "b", ".", "c">>)

-----------------------------------------------------------------------------
(* All documents.                                                          *)

Init == Start(PrintDocs \cup FutureDocs \cup HasKeyDocs \cup ExceptDocs)

Spec == Init /\ [][Next]_vars

\* C1: when the second call has returned, its result is what the first call
\* returned: convert_code(convert_code(s)) = convert_code(s), for documents
\* with nested has_key and execfile calls too.
C1_Idempotent == ReturnedAgain => result = first

-----------------------------------------------------------------------------
(* Long integer literals.                                                  *)

\* runs of decimal digits
Numbers == {<<"7">>, <<"1", "0", "0">>}

\* the Python 2 long suffix
Suffixes == {<<"L">>, <<"l">>}

\* text before and after the literal on its line; none ends or starts
\* with a word character
LongBefores == {<<>>, <<"z", " ", "=", " ">>, <<"f", "(">>}

LongAfters == {<<>>, <<" ", "+", " ", "1">>, <<")">>}

\* digits and a suffix inside a longer word: 100Long, x100L, 100LL
NotLong ==
    {n \o s \o <<"o", "n", "g">> : n \in Numbers, s \in Suffixes}
      \cup {<<"x">> \o n \o s : n \in Numbers, s \in Suffixes}
      \cup {n \o s \o t : n \in Numbers, s \in Suffixes, t \in Suffixes}

LongLines ==
    {pre \o n \o s \o post :
        pre \in LongBefores, n \in Numbers, s \in Suffixes, post \in LongAfters}
      \cup {pre \o t \o post :
              pre \in LongBefores, t \in NotLong, post \in LongAfters}

LongDocs == Docs(LongLines, PlainLines, PlainLines)

InitLong == Start(LongDocs)

SpecLong == InitLong /\ [][Next]_vars

\* C11: when convert_code has returned, every run of decimal digits that
\* is a whole word followed by exactly one `L` or `l` has lost the suffix
\* (`100L` is `100`), and digits with a suffix inside a longer word
\* (`100Long`, `x100L`, `100LL`) are unchanged.
C11_LongLiteral ==
    Returned =>
        LET src == NonBlank(source)
            res == NonBlank(result)
        IN  \A r \in DOMAIN src :
          \A pre \in LongBefores, post \in LongAfters :
            /\ \A n \in Numbers, s \in Suffixes :
                 Rewritten(src, res, r, pre \o n \o s \o post, pre \o n \o post)
            /\ \A t \in NotLong :
                 Rewritten(src, res, r, pre \o t \o post, pre \o t \o post)

\* C11 witness: `z = 100L + 1` after a line `y` has become `z = 100 + 1`.
C11_Witness ==
    /\ Returned
    /\ source = <<"y", "\n",
                  "z", " ", "=", " ", "1", "0", "0", "L", " ", "+", " ", "1">>
    /\ result = <<"y", "\n",
                  "z", " ", "=", " ", "1", "0", "0", " ", "+", " ", "1">>

-----------------------------------------------------------------------------
(* Renamed builtins: xrange, raw_input, unicode, basestring.               *)

\* the Python 2 call names with their Python 3 names
CallNames == {<<KwXrange, KwRange>>, <<KwRawInput, KwInput>>, <<KwUnicode, KwStr>>}

\* an argument list
CallArgs == <<"(", "3", ")">>

\* a name inside a longer identifier: myNAME, NAME2, NAME_x
Embedded(name) ==
    {<<"m", "y">> \o name, name \o <<"2">>, name \o <<"_", "x">>}

\* a call of a name, a call of an identifier that embeds it, and the name
\* with no parenthesis after it
CallLines ==
    UNION {{pre \o c[1] \o CallArgs \o post : pre \in LongBefores, post \in LongAfters}
             \cup {pre \o e \o CallArgs \o post :
                     pre \in LongBefores, e \in Embedded(c[1]), post \in LongAfters}
             \cup {pre \o c[1] \o post : pre \in LongBefores, post \in LongAfters}
           : c \in CallNames}

\* basestring as a word, and inside a longer identifier
BasestringLines ==
    {pre \o KwBasestring \o post : pre \in LongBefores, post \in LongAfters}
      \cup {pre \o e \o post :
              pre \in LongBefores, e \in Embedded(KwBasestring), post \in LongAfters}

RenameDocs == Docs(CallLines \cup BasestringLines, PlainLines, PlainLines)

InitRename == Start(RenameDocs)

SpecRename == InitRename /\ [][Next]_vars

\* C12: when convert_code has returned, `xrange(`, `raw_input(` and
\* `unicode(` that start at a word boundary are `range(`, `input(` and
\* `str(`, the word `basestring` is `str`, and a name inside a longer
\* identifier (`myxrange(`, `raw_input2(`, `basestring_x`) or a call name
\* with no opening parenthesis after it is unchanged.
C12_WholeWordRenames ==
    Returned =>
        LET src == NonBlank(source)
            res == NonBlank(result)
        IN  \A r \in DOMAIN src :
          \A pre \in LongBefores, post \in LongAfters :
            /\ \A c \in CallNames :
                 /\ Rewritten(src, res, r, pre \o c[1] \o CallArgs \o post,
                              pre \o c[2] \o CallArgs \o post)
                 /\ Rewritten(src, res, r, pre \o c[1] \o post, pre \o c[1] \o post)
                 /\ \A e \in Embedded(c[1]) :
                      Rewritten(src, res, r, pre \o e \o CallArgs \o post,
                                pre \o e \o CallArgs \o post)
            /\ Rewritten(src, res, r, pre \o KwBasestring \o post, pre \o KwStr \o post)
            /\ \A e \in Embedded(KwBasestring) :
                 Rewritten(src, res, r, pre \o e \o post, pre \o e \o post)

\* C12 witness: `f(raw_input(3))` has become `f(input(3))`.
C12_Witness ==
    /\ Returned
    /\ source = <<"f", "(">> \o KwRawInput \o CallArgs \o <<")">>
    /\ result = <<"f", "(">> \o KwInput \o CallArgs \o <<")">>

-----------------------------------------------------------------------------
(* The <> operator.                                                        *)

\* a <> b, with runs of blanks (or none) on either side of the operator
NotEqualTest(left, right) == <<"a">> \o left \o KwNe \o right \o <<"b">>

\* a != b
NotEqualNew == <<"a">> \o KwNotEqual \o <<"b">>

\* text before and after the comparison on its line
NeBefores == {<<>>, <<"i", "f", " ">>}

NeAfters == {<<>>, <<":">>, KwNe \o <<"c">>}

\* what the text after the comparison becomes
NeAfterNew(post) == IF post = KwNe \o <<"c">> THEN KwNotEqual \o <<"c">> ELSE post

\* lines with the operator at an end of the line, doubled, between angle
\* brackets, and inside a has_key argument
NeEdgeLines ==
    {<<"a", " ">> \o KwNe, KwNe \o <<" ", "b">>, KwNe, KwNe \o KwNe,
     <<"<">> \o KwNe \o <<">">>,
     <<"x">> \o KwHasKey \o <<"(">> \o KwNe \o <<")">>}

NotEqualLines ==
    {pre \o NotEqualTest(left, right) \o post :
        pre \in NeBefores, left \in Indents, right \in Indents, post \in NeAfters}

NotEqualDocs == Docs(NotEqualLines \cup NeEdgeLines, PlainLines, PlainLines)

InitNotEqual == Start(NotEqualDocs)

SpecNotEqual == InitNotEqual /\ [][Next]_vars

\* C13: when convert_code has returned, every `<>` of the source with the
\* blanks around it is ` != ` with exactly one space on each side
\* (`a<>b` and `a   <>   b` are both `a != b`), and the returned text
\* holds no `<>` at any position.
C13_NotEqual ==
    Returned =>
        LET src == NonBlank(source)
            res == NonBlank(result)
        IN  /\ \A r \in DOMAIN src :
                 \A pre \in NeBefores, left \in Indents, right \in Indents,
                    post \in NeAfters :
                   Rewritten(src, res, r, pre \o NotEqualTest(left, right) \o post,
                             pre \o NotEqualNew \o NeAfterNew(post))
            /\ \A i \in 1..Len(result) : ~StartsAt(result, i, KwNe)

\* C13 witness: `if a  <>  b:` between two lines `y` has become
\* `if a != b:`.
C13_Witness ==
    /\ Returned
    /\ source = <<"y", "\n", "i", "f", " ", "a", " ", " ", "<", ">", " ", " ", "b",
                  ":", "\n", "y">>
    /\ result = <<"y", "\n", "i", "f", " ", "a", " ", "!", "=", " ", "b", ":",
                  "\n", "y">>

-----------------------------------------------------------------------------
(* Dictionary iterator methods.                                            *)

\* the Python 2 methods with what replaces the call
IterMethods ==
    {<<KwIterItems, KwItems>>, <<KwIterKeys, KwKeys>>, <<KwIterValues, KwValues>>}

\* receivers: a name, a dotted name, a call
IterReceivers == Receivers \cup {<<"f", "(", "x", ")">>}

\* <recv>.iterNAME(), with blanks before and inside the parentheses
IterCall(recv, method, outer, inner) ==
    recv \o method \o outer \o <<"(">> \o inner \o <<")">>

\* one call on the line, and two calls of any two methods
IterLines ==
    {pre \o IterCall(recv, c[1], outer, inner) \o post :
        pre \in Befores, recv \in IterReceivers, c \in IterMethods,
        outer \in Gaps, inner \in Gaps, post \in Afters}
      \cup {IterCall(<<"d">>, c[1], <<>>, <<>>) \o <<",">>
              \o IterCall(<<"e">>, c2[1], <<>>, inner) :
                c \in IterMethods, c2 \in IterMethods, inner \in Indents}

IterDocs == Docs(IterLines, PlainLines, PlainLines)

InitIter == Start(IterDocs)

SpecIter == InitIter /\ [][Next]_vars

\* C14: when convert_code has returned, every `.iteritems()`,
\* `.iterkeys()` and `.itervalues()` with an empty argument list is
\* `.items()`, `.keys()` and `.values()`, each method whatever other
\* method is called on the line, and the receiver before the dot is
\* unchanged.
C14_DictIterators ==
    Returned =>
        LET src == NonBlank(source)
            res == NonBlank(result)
        IN  \A r \in DOMAIN src :
              /\ \A pre \in Befores, recv \in IterReceivers, c \in IterMethods,
                    outer \in Gaps, inner \in Gaps, post \in Afters :
                   Rewritten(src, res, r,
                             pre \o IterCall(recv, c[1], outer, inner) \o post,
                             pre \o recv \o c[2] \o post)
              /\ \A c \in IterMethods, c2 \in IterMethods, inner \in Indents :
                   Rewritten(src, res, r,
                             IterCall(<<"d">>, c[1], <<>>, <<>>) \o <<",">>
                               \o IterCall(<<"e">>, c2[1], <<>>, inner),
                             <<"d">> \o c[2] \o <<",">> \o <<"e">> \o c2[2])

\* C14 witness: `d.itervalues(),e.iterkeys( )` has become
\* `d.values(),e.keys()`.
C14_Witness ==
    /\ Returned
    /\ source = <<"d">> \o KwIterValues \o <<"(", ")", ",", "e">> \o KwIterKeys
                  \o <<"(", " ", ")">>
    /\ result = <<"d">> \o KwValues \o <<",", "e">> \o KwKeys

-----------------------------------------------------------------------------
(* execfile calls.                                                         *)

\* arguments: a name, a string, a call, an execfile call
ExecArgs ==
    {<<"x">>, <<"\"", "a", "\"">>, <<"f", "(", "x", ")">>,
     KwExecfile \o <<"(", "x", ")">>}

\* execfile(<arg>)
ExecfileCall(arg) == KwExecfile \o <<"(">> \o arg \o <<")">>

\* exec(open(<arg>).read())
ExecOpen(arg) == KwExecOpen \o arg \o KwRead

\* what an argument becomes: an execfile call inside it is rewritten too
ExecArgNew(arg) ==
    IF arg = KwExecfile \o <<"(", "x", ")">> THEN ExecOpen(<<"x">>) ELSE arg

ExecfileLines ==
    {pre \o ExecfileCall(arg) \o post :
        pre \in Befores, arg \in ExecArgs, post \in Afters}

ExecfileDocs == Docs(ExecfileLines, PlainLines, PlainLines)

InitExecfile == Start(ExecfileDocs)

SpecExecfile == InitExecfile /\ [][Next]_vars

\* C15: when convert_code has returned, every call `execfile(<arg>)` of the
\* source that starts at a word boundary is `exec(open(<arg>).read())`
\* with <arg> as the argument of open, and the returned text holds no
\* call `execfile(` at a word boundary.
C15_Execfile ==
    Returned =>
        LET src == NonBlank(source)
            res == NonBlank(result)
        IN  /\ \A r \in DOMAIN src :
                 \A pre \in Befores, arg \in ExecArgs, post \in Afters :
                   Rewritten(src, res, r, pre \o ExecfileCall(arg) \o post,
                             pre \o ExecOpen(ExecArgNew(arg)) \o post)
            /\ \A i \in 1..Len(result) :
                 ~(WordStart(result, i) /\ StartsAt(result, i, KwExecfile \o <<"(">>))

-----------------------------------------------------------------------------
(* Documents of any lines.                                                 *)

\* the most lines of a document of any lines
MaxLines == 3

\* lines no pattern matches
PassLines == {<<"x", " ", "=", " ", "1", " ", "+", " ", "2">>, <<"y">>, <<>>}

\* lines a pattern matches: a bare print, print with an argument, with a
\* lone comma, with a lone `>>`, with a call the xrange pattern rewrites,
\* `<>` at the end of the line, and a __future__ import
RuleLines ==
    {KwPrint,
     KwPrint \o <<" ", "y">>,
     KwPrint \o <<" ", ",">>,
     KwPrint \o <<" ">> \o KwRedirect,
     KwPrint \o <<" ">> \o KwXrange \o <<"(", "3", ")">>,
     <<"a", " ">> \o KwNe,
     KwFuture \o <<"a">>}

\* the documents of at most MaxLines lines, the empty document included
AnyDocs == {JoinLines(d) : d \in LinesUpTo(PassLines \cup RuleLines, MaxLines)}

InitAny == Start(AnyDocs)

SpecAny == InitAny /\ [][Next]_vars

\* the k-th pattern matches somewhere in the text
Occurs(k, text) == \E i \in 1..Len(text) : Match(k, text, i).ok

\* a line of the text starts with `from __future__ import `
FutureLine(text) ==
    \E i \in 1..Len(text) : AtLineStart(text, i) /\ StartsAt(text, i, KwFuture)

\* no pattern of the list and no __future__ import occurs in the text
NoRule(text) == (\A k \in 1..NumPatterns : ~Occurs(k, text)) /\ ~FutureLine(text)

\* a text in which nothing occurs is returned as it is
WholeKept == NoRule(source) => result = source

\* every non-empty line of the source in which nothing occurs is a line
\* of the result
LinesKept ==
    LET src == NonBlank(source)
        res == NonBlank(result)
    IN  \A r \in DOMAIN src :
          NoRule(src[r]) => \E q \in DOMAIN res : res[q] = src[r]

\* C16: when convert_code has returned, a source in which no pattern and
\* no __future__ import line occurs is returned unchanged, and every
\* non-empty line of the source that matches no pattern is a line of the
\* returned text, unchanged.
C16_Passthrough == Returned => (WholeKept /\ LinesKept)

\* the characters of the documents
Chars ==
    Word \cup Space
      \cup {"(", ")", ",", ".", ":", "=", "+", "<", ">", "!", "\"", "[", "]", "#"}

\* a string: every element is a character
IsText(text) == \A i \in DOMAIN text : text[i] \in Chars

\* C17: at every step of a call on any document, the empty string and the
\* lines `print ,` and `print >>` included, what the call holds, and so
\* what it returns, is a string: no replacement raises or yields anything
\* else.
C17_Total == IsText(result) /\ IsText(first)

\* C17 witness: the call on `print ,` followed by `print >>` has returned
\* `print(, end=" ")` and `print(>>)`.
C17_Witness ==
    /\ Returned
    /\ source = KwPrint \o <<" ", ",", "\n">> \o KwPrint \o <<" ">> \o KwRedirect
    /\ result = KwPrint \o <<"(">> \o KwEnd \o <<")", "\n">>
                  \o KwPrint \o <<"(">> \o KwRedirect \o <<")">>

-----------------------------------------------------------------------------
(* The order of the rules.                                                 *)

\* one rule, given by its pattern M and its replacement R, applied to the
\* whole of a text from position i on: every match in turn, from the left
RECURSIVE ScanFrom(_, _, _, _)
ScanFrom(M(_, _), R(_), text, i) ==
    LET found == {p \in i..Len(text) : M(text, p).ok}
        p     == Min(found)
        m     == M(text, p)
    IN  IF found = {} THEN Slice(text, i, Len(text) + 1)
        ELSE Slice(text, i, p) \o R(m) \o ScanFrom(M, R, text, m.end)

\* the rules one after another in catalog order, each on the text the
\* previous one produced, and the __future__ cleanup on the last text
CatalogOrder(s) ==
    LET barePrint  == ScanFrom(MatchBarePrint, ReplBarePrint, s, 1)
        printArgs  == ScanFrom(MatchPrintArgs, ConvertPrint, barePrint, 1)
        xrange     == ScanFrom(MatchXrange, LAMBDA m : KwRange \o <<"(">>, printArgs, 1)
        rawInput   == ScanFrom(MatchRawInput, LAMBDA m : KwInput \o <<"(">>, xrange, 1)
        except     == ScanFrom(MatchExcept, ReplExcept, rawInput, 1)
        long       == ScanFrom(MatchLong, LAMBDA m : m.g1, except, 1)
        basestring == ScanFrom(MatchBasestring, LAMBDA m : KwStr, long, 1)
        unicode    == ScanFrom(MatchUnicode, LAMBDA m : KwStr \o <<"(">>, basestring, 1)
        notEqual   == ScanFrom(MatchNotEqual, LAMBDA m : KwNotEqual, unicode, 1)
        hasKey     == ScanFrom(MatchHasKey, ReplHasKey, notEqual, 1)
        iterItems  == ScanFrom(MatchIterItems, LAMBDA m : KwItems, hasKey, 1)
        iterKeys   == ScanFrom(MatchIterKeys, LAMBDA m : KwKeys, iterItems, 1)
        iterValues == ScanFrom(MatchIterValues, LAMBDA m : KwValues, iterKeys, 1)
        execfile   == ScanFrom(MatchExecfile, ReplExecfile, iterValues, 1)
    IN  ScanFrom(MatchFuture, LAMBDA m : <<>>, execfile, 1)

\* C18: what convert_code returns is the __future__ cleanup of the text
\* got by applying the rules one after another in catalog order (bare
\* print, print with arguments, xrange, raw_input, except, long literal,
\* basestring, unicode, <>, has_key, iteritems, iterkeys, itervalues,
\* execfile), each rule on the whole text the previous rule produced.
C18_CatalogOrder == Returned => result = CatalogOrder(source)

\* C18 witness: `print xrange(3)` has become `print(range(3))`: the xrange
\* rule has rewritten text the print rule produced.
C18_Witness ==
    /\ Returned
    /\ source = KwPrint \o <<" ">> \o KwXrange \o <<"(", "3", ")">>
    /\ result = KwPrint \o <<"(">> \o KwRange \o <<"(", "3", ")", ")">>

-----------------------------------------------------------------------------
(* The rule list of the converter.                                         *)

\* C19: the rule list of the converter is at every step of every call the
\* list it was constructed with, and each call returns what convert_code
\* gives for its argument alone: the first call for the source, the second
\* call, made on the same converter after the first, for its own argument.
C19_RuleListFixed ==
    /\ patterns = CompiledPatterns
    /\ Returned => result = convert_code(source)
    /\ ReturnedAgain => result = convert_code(first)

\* C19 witness: after a first call on `print y` and `a <>`, the second
\* call, on the text `print(y)` and `a != ` that the first call returned,
\* has returned with the rule list as constructed.
C19_Witness ==
    /\ ReturnedAgain
    /\ source = KwPrint \o <<" ", "y", "\n", "a", " ">> \o KwNe
    /\ first = KwPrint \o <<"(", "y", ")", "\n", "a">> \o KwNotEqual
    /\ result = first
    /\ patterns = CompiledPatterns

-----------------------------------------------------------------------------
(* Two threads that call convert_code on one converter.                    *)

\* a loop step of the other thread that keeps its text in the first
\* thread's result
OtherApplyPatternSharedText ==
    /\ other.step < Len(patterns)
    /\ result' = Sub(patterns[other.step + 1], result)
    /\ other' = [other EXCEPT !.result = result', !.step = @ + 1]
    /\ UNCHANGED <<source, step, pass, first, patterns>>
    /\ UNCHANGED apiVars

\* one iteration of the loop over self._patterns, in the other thread
OtherApplyPattern ==
    /\ other.step < Len(patterns)
    /\ other' = [other EXCEPT !.result = Sub(patterns[other.step + 1], @),
                              !.step = @ + 1]
    /\ UNCHANGED <<source, result, step, pass, first, patterns>>
    /\ UNCHANGED apiVars

\* the re.sub that removes the __future__ imports, in the other thread;
\* its call then returns
OtherStripFuture ==
    /\ other.step = Len(patterns)
    /\ other' = [other EXCEPT !.result = RemoveFuture(@),
                              !.step = NumPatterns + 1]
    /\ UNCHANGED <<source, result, step, pass, first, patterns>>
    /\ UNCHANGED apiVars

\* lines of the documents the two threads convert
ThreadLines ==
    {KwPrint \o <<" ", "y">>, <<"a", " ">> \o KwNe, KwFuture \o <<"a">>}

\* the documents of fewer than MaxLines lines
ThreadDocs == {JoinLines(d) : d \in LinesUpTo(ThreadLines, MaxLines - 1)}

\* both threads have called convert_code, each on its own document
InitThreads ==
    /\ source \in ThreadDocs
    /\ result = source
    /\ step = 0
    /\ pass = 1
    /\ first = <<>>
    /\ patterns = CompiledPatterns
    /\ other \in {[source |-> s, result |-> s, step |-> 0] : s \in ThreadDocs}
    /\ ApiIdle

\* the steps of the two calls, in any interleaving
NextThreads ==
    ApplyPattern \/ StripFuture \/ OtherApplyPattern \/ OtherStripFuture

SpecThreads == InitThreads /\ [][NextThreads]_vars

\* the other thread's call has returned
OtherReturned == other.step = NumPatterns + 1

\* C20: in every interleaving of the steps of two calls of convert_code on
\* one converter, each call returns what convert_code gives for its
\* argument alone, and no step changes the rule list the calls share.
C20_Concurrent ==
    /\ Returned => result = convert_code(source)
    /\ OtherReturned => other.result = convert_code(other.source)
    /\ patterns = CompiledPatterns

\* C20 witness: the first thread has returned `print(y)` for `print y`
\* while the other thread is in the middle of its loop on `a <>` and
\* `print y`, having rewritten both.
C20_Witness ==
    /\ Returned
    /\ source = KwPrint \o <<" ", "y">>
    /\ result = KwPrint \o <<"(", "y", ")">>
    /\ other.step = 10
    /\ other.source = <<"a", " ">> \o KwNe \o <<"\n">> \o KwPrint \o <<" ", "y">>
    /\ other.result = <<"a">> \o KwNotEqual \o KwPrint \o <<"(", "y", ")">>

-----------------------------------------------------------------------------
(* The module-level accessor get_converter().                              *)

\* no convert_code call is running or will run
ConvIdle ==
    /\ source = <<>>
    /\ result = <<>>
    /\ step = NumPatterns + 1
    /\ pass = 2
    /\ first = <<>>
    /\ patterns = CompiledPatterns
    /\ other = NoCall

\* thread t calls get_converter()
Call(t) ==
    /\ caller[t].pc = "idle"
    /\ caller[t].calls < MaxCalls
    /\ caller' = [caller EXCEPT ![t].pc = "test"]
    /\ UNCHANGED <<converter, constructed, returned>>
    /\ UNCHANGED <<convVars, cliVars, screenVars>>

\* if _converter is None:
Test(t) ==
    /\ caller[t].pc = "test"
    /\ caller' = [caller EXCEPT
                    ![t].pc = IF converter = None THEN "construct" ELSE "return"]
    /\ UNCHANGED <<converter, constructed, returned>>
    /\ UNCHANGED <<convVars, cliVars, screenVars>>

\* Py2To3Converter(): the right-hand side of the assignment
Construct(t) ==
    /\ caller[t].pc = "construct"
    /\ constructed' = constructed + 1
    /\ caller' = [caller EXCEPT ![t].pc = "store", ![t].made = constructed + 1]
    /\ UNCHANGED <<converter, returned>>
    /\ UNCHANGED <<convVars, cliVars, screenVars>>

\* _converter = <the new instance>
Store(t) ==
    /\ caller[t].pc = "store"
    /\ converter' = caller[t].made
    /\ caller' = [caller EXCEPT ![t].pc = "return"]
    /\ UNCHANGED <<constructed, returned>>
    /\ UNCHANGED <<convVars, cliVars, screenVars>>

\* return _converter
Return(t) ==
    /\ caller[t].pc = "return"
    /\ returned' = returned \cup {converter}
    /\ caller' = [caller EXCEPT ![t].pc = "idle", ![t].calls = @ + 1]
    /\ UNCHANGED <<converter, constructed>>
    /\ UNCHANGED <<convVars, cliVars, screenVars>>

InitAccessor == ConvIdle /\ AccessorStart(0) /\ CliIdle /\ ScreenIdle

\* the threads run get_converter() with no lock: a thread may be
\* suspended between any two of its steps
NextAccessor ==
    \E t \in Threads : Call(t) \/ Test(t) \/ Construct(t) \/ Store(t) \/ Return(t)

SpecAccessor == InitAccessor /\ [][NextAccessor]_vars

\* C21: in every interleaving of the callers of get_converter(), at most
\* one Py2To3Converter is ever constructed, and every call returns the
\* same instance.
C21_Singleton == constructed <= 1 /\ Cardinality(returned) <= 1

-----------------------------------------------------------------------------
(* The command line (main) and convert_file.                               *)

\* bool(path) for a string or None
Truthy(path) == path \notin {Omitted, ""}

\* no file is written
Nowhere == "<nowhere>"

\* convert_file that always writes in place
WriteTargetInPlace(input_path, output_path) == input_path

\* the file convert_file(input_path, output_path) writes:
\* `if output_path:` the output path, `elif output_path is None:` the
\* input path, and else none
WriteTarget(input_path, output_path) ==
    IF Truthy(output_path) THEN output_path
    ELSE IF output_path = Omitted THEN input_path
    ELSE Nowhere

\* main() prints the converted text: stdin with output `-` or omitted, or a
\* file with output `-`
UsesStdout(c) ==
    /\ c.kind = "main"
    /\ \/ c.input = "-" /\ c.output \in {"-", Omitted}
       \/ c.input # "-" /\ c.output = "-"

\* the file the run or call writes: main() with stdin opens args.output
\* itself, and otherwise convert_file chooses
Target(c) ==
    IF c.kind = "main" /\ c.input = "-" THEN c.output
    ELSE WriteTarget(c.input, c.output)

\* an exception leaves the try block of main() (except Exception: message
\* on stderr, sys.exit(1)) or leaves convert_file() to its caller
Fail(c) ==
    IF c.kind = "main"
    THEN /\ stderr' = Append(stderr, "Error")
         /\ cli' = [c EXCEPT !.pc = "done", !.failed = TRUE, !.exit = 1]
    ELSE /\ stderr' = stderr
         /\ cli' = [c EXCEPT !.pc = "raised", !.failed = TRUE]

\* the run or call is over without an exception; main() for a file has
\* then printed `Converted: ...` on stderr if args.verbose
Succeed(c) ==
    /\ stderr' = IF c.kind = "main" /\ c.input # "-" /\ c.verbose
                 THEN Append(stderr, "Converted") ELSE stderr
    /\ cli' = [c EXCEPT !.pc = IF c.kind = "main" THEN "done" ELSE "returned"]

\* main() up to where the source is read: stdin is read, or the input file
\* is looked for with os.path.exists
MainCheck ==
    /\ cli.kind = "main"
    /\ cli.pc = "start"
    /\ IF cli.input = "-"
       THEN /\ cli' = [cli EXCEPT !.text = cli.stdin, !.pc = "out"]
            /\ stderr' = stderr
       ELSE IF files[cli.input] = NoFile
       THEN /\ stderr' = Append(stderr, "Error: Input file not found")
            /\ cli' = [cli EXCEPT !.pc = "done", !.failed = TRUE, !.exit = 1]
       ELSE /\ cli' = [cli EXCEPT !.pc = "read"]
            /\ stderr' = stderr
    /\ UNCHANGED <<files, stdout>>
    /\ UNCHANGED <<convVars, accessorVars, screenVars>>

\* with open(input_path, 'r') as f: source = f.read(), which raises when
\* there is no such file and may raise for a file that is there
ReadFile ==
    /\ cli.pc = "read"
    /\ \E ok \in IF files[cli.input] = NoFile THEN {FALSE} ELSE BOOLEAN :
         IF ok
         THEN /\ cli' = [cli EXCEPT !.text = files[cli.input], !.pc = "out"]
              /\ stderr' = stderr
         ELSE Fail(cli)
    /\ UNCHANGED <<files, stdout>>
    /\ UNCHANGED <<convVars, accessorVars, screenVars>>

\* converted = convert_code(source); print(converted, end='')
EmitStdout ==
    /\ cli.pc = "out"
    /\ UsesStdout(cli)
    /\ stdout' = stdout \o convert_code(cli.text)
    /\ Succeed(cli)
    /\ UNCHANGED files
    /\ UNCHANGED <<convVars, accessorVars, screenVars>>

\* converted = convert_code(source), and the write of it, if any:
\* open(path, 'w') raises and leaves the files alone, or creates or
\* truncates the file; f.write then raises, or writes the text
WriteFile ==
    /\ cli.pc = "out"
    /\ ~UsesStdout(cli)
    /\ LET converted == convert_code(cli.text)
           path      == Target(cli)
           done      == [cli EXCEPT !.ret = converted]
       IN  IF path = Nowhere
           THEN /\ files' = files
                /\ Succeed(done)
           ELSE \E outcome \in IF path \in Paths
                               THEN {"written", "open raises", "write raises"}
                               ELSE {"open raises"} :
                  CASE outcome = "written" ->
                         /\ files' = [files EXCEPT ![path] = converted]
                         /\ Succeed([done EXCEPT !.written = @ \cup {path}])
                    [] outcome = "open raises" ->
                         /\ files' = files
                         /\ Fail(cli)
                    [] outcome = "write raises" ->
                         /\ files' = [files EXCEPT ![path] = <<>>]
                         /\ Fail([cli EXCEPT !.written = @ \cup {path}])
    /\ UNCHANGED stdout
    /\ UNCHANGED <<convVars, accessorVars, screenVars>>

\* the texts of the files and of stdin
CliTexts == {KwPrint \o <<" ", "y">>, <<"y">>}

\* the file systems: in.py is there, out.py is there or not, gone.py is not
Disks ==
    {[p \in Paths |-> CASE p = "in.py" -> text
                        [] p = "out.py" -> old
                        [] OTHER -> NoFile] :
        text \in CliTexts, old \in {NoFile, <<"o", "l", "d">>}}

\* py2to3 [-v] input [output]
InitMain ==
    /\ ConvIdle
    /\ AccessorStart(MaxCalls)
    /\ ScreenIdle
    /\ files \in Disks
    /\ \E input \in {"-", "in.py", "gone.py"},
          output \in {Omitted, "-", "out.py", ""},
          verbose \in BOOLEAN, stdin \in CliTexts :
         CliStart("main", "start", input, output, verbose, stdin)

NextMain == MainCheck \/ ReadFile \/ EmitStdout \/ WriteFile

SpecMain == InitMain /\ [][NextMain]_vars

\* the run of main() is over
MainDone == cli.kind = "main" /\ cli.pc = "done"

\* C22: when a run of main() is over in which the input file was missing
\* or an exception was raised while reading, converting or writing, an
\* error message is on stderr, nothing is on stdout, the exit status is 1
\* and every file is as it was before the run; a run without failure has
\* exit status 0.
C22_FailureReporting ==
    MainDone =>
        IF cli.failed
        THEN /\ \E i \in DOMAIN stderr :
                  stderr[i] \in {"Error", "Error: Input file not found"}
             /\ stdout = <<>>
             /\ cli.exit = 1
             /\ files = cli.before
        ELSE cli.exit = 0

\* the text a run of main() converts
MainSource == IF cli.input = "-" THEN cli.stdin ELSE cli.before[cli.input]

-----------------------------------------------------------------------------
(* Lines and newlines.                                                     *)

\* print statements, bare and with an argument, plain and indented, and
\* lines no pattern matches, the empty line among them
BlockLines ==
    {KwPrint, KwPrint \o <<" ", "y">>, <<" ">> \o KwPrint,
     <<" ">> \o KwPrint \o <<" ", "y">>} \cup PlainLines

\* the documents of at most MaxLines such lines
BlockDocs == {JoinLines(d) : d \in LinesUpTo(BlockLines, MaxLines)}

InitBlock == Start(BlockDocs)

SpecBlock == InitBlock /\ [][Next]_vars

\* every line converted on its own, the results joined by the newlines of
\* the text
LineByLine(text) ==
    LET lines == SplitLines(text)
    IN  JoinLines([r \in DOMAIN lines |-> convert_code(lines[r])])

\* C24: when convert_code has returned for a document of print statements
\* and of lines that match no rule, blank lines included, the returned
\* text is the document of its lines each converted on its own, with the
\* newlines of the source between them.
C24_LineLocalPrint == Returned => result = LineByLine(source)


\* the number of newlines of a text
Newlines(text) == Cardinality({i \in 1..Len(text) : text[i] = "\n"})

\* the number of __future__ import lines of a text that the cleanup of
\* convert_code matches, each with the newline that ends it
FutureLinesRemoved(text) ==
    Cardinality({i \in 1..Len(text) : MatchFuture(text, i).ok})

\* C25: while the patterns are applied the text keeps the number of
\* newlines of the source, and the returned text has that number less one
\* for every __future__ import line the cleanup removed.
C25_NewlinesKept ==
    pass = 1 =>
        IF step <= NumPatterns
        THEN Newlines(result) = Newlines(source)
        ELSE Newlines(result) =
                 Newlines(source) - FutureLinesRemoved(source)

-----------------------------------------------------------------------------
(* convert_file called directly.                                           *)

\* convert_file(input_path) and convert_file(input_path, output_path)
InitFile ==
    /\ ConvIdle
    /\ AccessorStart(MaxCalls)
    /\ ScreenIdle
    /\ files \in Disks
    /\ \E input \in {"in.py", "gone.py"},
          output \in {Omitted, "in.py", "out.py", "gone.py", ""} :
         CliStart("convert_file", "read", input, output, FALSE, <<>>)

NextFile == ReadFile \/ WriteFile

SpecFile == InitFile /\ [][NextFile]_vars

\* convert_file has returned to its caller
FileReturned == cli.kind = "convert_file" /\ cli.pc = "returned"

\* C26: when convert_file has returned, it returns the converted text of
\* the input file and has written that text to exactly one file, the
\* output path when one was passed and the input path otherwise.
C26_AlwaysPersists ==
    FileReturned =>
        LET path == IF cli.output = Omitted THEN cli.input ELSE cli.output
        IN  /\ cli.ret = convert_code(cli.before[cli.input])
            /\ cli.written = {path}
            /\ files[path] = cli.ret

-----------------------------------------------------------------------------
(* The image search path: setBundlePath, getImagePath, addImagePath,       *)
(* removeImagePath and resetImagePath.                                     *)

\* the directories the script names, and the empty string
Dirs == {"a", "b", "c"}

\* list.remove(x): the list without the first x in it
RECURSIVE ListRemove(_, _)
ListRemove(list, x) ==
    IF list = <<>> THEN <<>>
    ELSE IF Head(list) = x THEN Tail(list)
    ELSE <<Head(list)>> \o ListRemove(Tail(list), x)

\* x in list
In(x, list) == \E i \in 1..Len(list) : list[i] = x

\* a call of one of the functions is over
Called(op, arg, ret) ==
    got' = [op |-> op, arg |-> arg, before |-> image_paths, ret |-> ret]

\* _bundle_path = path
setBundlePath ==
    \E path \in Dirs \cup {""} :
        /\ bundle_path' = path
        /\ Called("setBundlePath", path, <<>>)
        /\ UNCHANGED image_paths
        /\ UNCHANGED <<convVars, accessorVars, cliVars, regionVars, vanishVars>>

\* paths = list(_image_paths); if _bundle_path: paths.insert(0,
\* _bundle_path); return paths
getImagePath ==
    /\ Called("getImagePath", NoPath,
              IF bundle_path \notin {NoPath, ""}
              THEN <<bundle_path>> \o image_paths
              ELSE image_paths)
    /\ UNCHANGED <<bundle_path, image_paths>>
    /\ UNCHANGED <<convVars, accessorVars, cliVars, regionVars, vanishVars>>

\* if path not in _image_paths: _image_paths.append(path)
addImagePath ==
    \E path \in Dirs :
        /\ image_paths' = IF In(path, image_paths) THEN image_paths
                          ELSE Append(image_paths, path)
        /\ Called("addImagePath", path, <<>>)
        /\ UNCHANGED bundle_path
        /\ UNCHANGED <<convVars, accessorVars, cliVars, regionVars, vanishVars>>

\* if path in _image_paths: _image_paths.remove(path)
removeImagePath ==
    \E path \in Dirs :
        /\ image_paths' = IF In(path, image_paths)
                          THEN ListRemove(image_paths, path)
                          ELSE image_paths
        /\ Called("removeImagePath", path, <<>>)
        /\ UNCHANGED bundle_path
        /\ UNCHANGED <<convVars, accessorVars, cliVars, regionVars, vanishVars>>

\* _image_paths = []; _bundle_path = None
resetImagePath ==
    /\ image_paths' = <<>>
    /\ bundle_path' = NoPath
    /\ Called("resetImagePath", NoPath, <<>>)
    /\ UNCHANGED <<convVars, accessorVars, cliVars, regionVars, vanishVars>>

InitImage ==
    /\ ConvIdle
    /\ AccessorStart(MaxCalls)
    /\ CliIdle
    /\ ScreenIdle

NextImage ==
    \/ setBundlePath
    \/ getImagePath
    \/ addImagePath
    \/ removeImagePath
    \/ resetImagePath

SpecImage == InitImage /\ [][NextImage]_vars

\* no path is twice in the list
NoDuplicate(list) ==
    \A i, j \in 1..Len(list) : list[i] = list[j] => i = j

\* C27: what getImagePath has returned holds no path twice and is the
\* bundle path, when one is set and not empty, followed by the stored
\* paths, which the call has left as they were; addImagePath puts a new
\* path after the paths added before it; after resetImagePath the list is
\* empty and no bundle path is set.
C27_ImagePathList ==
    /\ got.op = "getImagePath" =>
           /\ NoDuplicate(got.ret)
           /\ got.ret = (IF bundle_path \notin {NoPath, ""}
                         THEN <<bundle_path>> ELSE <<>>) \o image_paths
           /\ image_paths = got.before
    /\ got.op = "addImagePath" =>
           image_paths \in {got.before, Append(got.before, got.arg)}
    /\ got.op = "resetImagePath" =>
           image_paths = <<>> /\ bundle_path = NoPath

-----------------------------------------------------------------------------
(* Region: the geometry of the pure Python fallback.                       *)

\* the coordinates x and y run from -1 to MaxCoord
MaxCoord == 1

\* the sizes w and h run from -1 to MaxSize
MaxSize == 2

Coords == -1..MaxCoord

Sizes == -1..MaxSize

\* the Regions a script constructs, empty and negative sizes among them
Regions == {Region(x, y, w, h) : x, y \in Coords, w, h \in Sizes}

\* the amounts of expand() and the distances of offset()
Amounts == -MaxCoord..MaxCoord

\* the points looked at: every point of every Region of Regions, and the
\* points next to them
Points == (-2..(MaxCoord + MaxSize)) \X (-2..(MaxCoord + MaxSize))

\* intersection() returns None
NoRegion == Region(0, 0, -2, -2)

\* (self.x + self.w // 2, self.y + self.h // 2)
center(self) == <<self.x + (self.w \div 2), self.y + (self.h \div 2)>>

\* self.x <= x < self.x + self.w and self.y <= y < self.y + self.h
contains(self, x, y) ==
    /\ self.x <= x /\ x < self.x + self.w
    /\ self.y <= y /\ y < self.y + self.h

\* the overlap taken to be there when the two Regions only touch
intersectionTouching(self, that) ==
    LET x1 == Max({self.x, that.x})
        y1 == Max({self.y, that.y})
        x2 == Min({self.x + self.w, that.x + that.w})
        y2 == Min({self.y + self.h, that.y + that.h})
    IN  IF x1 <= x2 /\ y1 <= y2
        THEN Region(x1, y1, x2 - x1, y2 - y1)
        ELSE NoRegion

\* x1, y1 = max of the left and top edges; x2, y2 = min of the right and
\* bottom edges; if x1 < x2 and y1 < y2: Region(x1, y1, x2 - x1, y2 - y1),
\* else None
intersection(self, that) ==
    LET x1 == Max({self.x, that.x})
        y1 == Max({self.y, that.y})
        x2 == Min({self.x + self.w, that.x + that.w})
        y2 == Min({self.y + self.h, that.y + that.h})
    IN  IF x1 < x2 /\ y1 < y2
        THEN Region(x1, y1, x2 - x1, y2 - y1)
        ELSE NoRegion

\* Region(self.x + dx, self.y + dy, self.w, self.h)
offset(self, dx, dy) == Region(self.x + dx, self.y + dy, self.w, self.h)

\* self.w * self.h
area(self) == self.w * self.h

\* the Region grown at its right and bottom edges only
growOneSided(self, amount) ==
    Region(self.x - amount, self.y - amount,
           self.w + amount, self.h + amount)

\* Region(self.x - amount, self.y - amount, self.w + amount * 2,
\* self.h + amount * 2)
grow(self, amount) ==
    Region(self.x - amount, self.y - amount,
           self.w + amount * 2, self.h + amount * 2)

\* return self.grow(amount)
expand(self, amount) == grow(self, amount)

\* Region.__eq__ on two Regions
eq(self, that) ==
    /\ self.x = that.x /\ self.y = that.y
    /\ self.w = that.w /\ self.h = that.h

\* the script calls a method on the Region it has constructed, and the
\* method returns; no method assigns an attribute of self
Method(op, args, ret) ==
    /\ value.op = "none"
    /\ value' = [op |-> op, self |-> region, args |-> args, ret |-> ret]
    /\ UNCHANGED region
    /\ UNCHANGED <<convVars, accessorVars, cliVars, imageVars, vanishVars>>

Center == Method("center", <<>>, center(region))

Area == Method("area", <<>>, area(region))

Offset == \E dx, dy \in Amounts : Method("offset", <<dx, dy>>, offset(region, dx, dy))

Expand == \E n \in Amounts : Method("expand", <<n>>, expand(region, n))

Contains == \E p \in Points : Method("contains", p, contains(region, p[1], p[2]))

Intersection ==
    \E that \in Regions :
        Method("intersection", <<that>>, intersection(region, that))

InitRegion ==
    /\ ConvIdle
    /\ AccessorStart(MaxCalls)
    /\ CliIdle
    /\ ImageStart
    /\ VanishIdle
    /\ region \in Regions
    /\ value = [op |-> "none", self |-> region, args |-> <<>>, ret |-> 0]

NextRegion ==
    \/ Center
    \/ Area
    \/ Offset
    \/ Expand
    \/ Contains
    \/ Intersection

SpecRegion == InitRegion /\ [][NextRegion]_vars

\* C28: expand(n) returns Region(x - n, y - n, w + 2n, h + 2n), and
\* expand(-n) of that Region is equal to the receiver; offset(dx, dy)
\* returns Region(x + dx, y + dy, w, h); center() is (x + w // 2,
\* y + h // 2), the halves rounded down; area() is w * h; and the receiver
\* is after each call what it was before it.
C28_Derivations ==
    LET r == value.self
        a == value.args
    IN  /\ value.op = "expand" =>
               /\ value.ret = Region(r.x - a[1], r.y - a[1],
                                     r.w + 2 * a[1], r.h + 2 * a[1])
               /\ eq(expand(value.ret, -a[1]), r)
        /\ value.op = "offset" =>
               value.ret = Region(r.x + a[1], r.y + a[2], r.w, r.h)
        /\ value.op = "center" =>
               /\ r.w - 2 * (value.ret[1] - r.x) \in {0, 1}
               /\ r.h - 2 * (value.ret[2] - r.y) \in {0, 1}
        /\ value.op = "area" => value.ret = r.w * r.h
        /\ value.op # "none" => region = r

\* expand(1) of Region(0, 0, 2, 1) has returned Region(-1, -1, 4, 3)
C28_Witness ==
    /\ value.op = "expand"
    /\ value.self = Region(0, 0, 2, 1)
    /\ value.args = <<1>>
    /\ value.ret = Region(-1, -1, 4, 3)

\* the points of Points both Regions contain
Common(a, b) ==
    {p \in Points : contains(a, p[1], p[2]) /\ contains(b, p[1], p[2])}

\* C29: contains(px, py) is true exactly for the points with x <= px < x + w
\* and y <= py < y + h; a.intersection(b) is None exactly when no point is
\* in both a and b, otherwise it contains exactly the points in both; and
\* it is what b.intersection(a) returns.
C29_ContainsIntersection ==
    LET a == value.self
    IN  /\ value.op = "contains" =>
               value.ret = (/\ value.args[1] \in a.x..(a.x + a.w - 1)
                            /\ value.args[2] \in a.y..(a.y + a.h - 1))
        /\ value.op = "intersection" =>
               LET b == value.args[1]
               IN  /\ value.ret = NoRegion <=> Common(a, b) = {}
                   /\ value.ret # NoRegion =>
                          \A p \in Points :
                              contains(value.ret, p[1], p[2])
                                  <=> p \in Common(a, b)
                   /\ value.ret = intersection(b, a)

\* Region(0, 0, 2, 2).intersection(Region(1, 1, 2, 2)) has returned
\* Region(1, 1, 1, 1)
C29_Witness ==
    /\ value.op = "intersection"
    /\ value.self = Region(0, 0, 2, 2)
    /\ value.args = <<Region(1, 1, 2, 2)>>
    /\ value.ret = Region(1, 1, 1, 1)

-----------------------------------------------------------------------------
(* waitVanish(target, timeout), of the package and of Region, with time in *)
(* scan intervals (time.sleep(1.0 / Settings.WaitScanRate) is one).        *)

\* the timeouts run from 0 to MaxTimeout
MaxTimeout == 2

\* the clock is looked at up to here
MaxTime == MaxTimeout + 1

\* start = time.time()
Begin ==
    /\ vanish.pc = "start"
    /\ vanish' = [vanish EXCEPT !.start = now, !.pc = "test"]
    /\ UNCHANGED <<now, present>>
    /\ UNCHANGED <<convVars, accessorVars, cliVars, imageVars, regionVars>>

\* while time.time() - start < timeout: ... return False
LoopTest ==
    /\ vanish.pc = "test"
    /\ vanish' = IF now - vanish.start < vanish.timeout
                 THEN [vanish EXCEPT !.pc = "poll"]
                 ELSE [vanish EXCEPT !.pc = "returned", !.ret = FALSE]
    /\ UNCHANGED <<now, present>>
    /\ UNCHANGED <<convVars, accessorVars, cliVars, imageVars, regionVars>>

\* if exists(target, 0) is None: return True.  exists calls wait(target,
\* 0), which calls find once: a match is returned, no match raises
\* FindFailed, and find itself may raise; exists turns every exception
\* into None
Poll ==
    /\ vanish.pc = "poll"
    /\ \E seen \in {IF present THEN "present" ELSE "absent", "find raised"} :
         vanish' = IF seen = "present"
                   THEN [vanish EXCEPT !.polls = Append(@, seen),
                                       !.pc = "sleep"]
                   ELSE [vanish EXCEPT !.polls = Append(@, seen),
                                       !.pc = "returned", !.ret = TRUE]
    /\ UNCHANGED <<now, present>>
    /\ UNCHANGED <<convVars, accessorVars, cliVars, imageVars, regionVars>>

\* time.sleep(1.0 / Settings.WaitScanRate)
Sleep ==
    /\ vanish.pc = "sleep"
    /\ now' = Min({now + 1, MaxTime})
    /\ vanish' = [vanish EXCEPT !.pc = "test"]
    /\ UNCHANGED present
    /\ UNCHANGED <<convVars, accessorVars, cliVars, imageVars, regionVars>>

\* time passes between two steps of the loop
Tick ==
    /\ vanish.pc \in {"test", "poll", "sleep"}
    /\ now < MaxTime
    /\ now' = now + 1
    /\ UNCHANGED <<present, vanish>>
    /\ UNCHANGED <<convVars, accessorVars, cliVars, imageVars, regionVars>>

\* the target appears on the screen or vanishes from it while the call runs
ScreenChanges ==
    /\ vanish.pc \in {"start", "test", "poll", "sleep"}
    /\ present' = ~present
    /\ vanish' = [vanish EXCEPT !.absent = @ /\ present]
    /\ UNCHANGED now
    /\ UNCHANGED <<convVars, accessorVars, cliVars, imageVars, regionVars>>

\* waitVanish(target, timeout) is called, the target on the screen or not
InitVanish ==
    /\ ConvIdle
    /\ AccessorStart(MaxCalls)
    /\ CliIdle
    /\ ImageStart
    /\ RegionIdle
    /\ present \in BOOLEAN
    /\ \E timeout \in 0..MaxTimeout : VanishStart("start", timeout)

NextVanish ==
    \/ Begin
    \/ LoopTest
    \/ Poll
    \/ Sleep
    \/ Tick
    \/ ScreenChanges

SpecVanish == InitVanish /\ [][NextVanish]_vars

\* waitVanish has returned
VanishReturned == vanish.pc = "returned"

\* a poll of the call that did not see the target
SawAbsent == \E i \in 1..Len(vanish.polls) : vanish.polls[i] # "present"

\* C30: the call never ends by raising; when it has returned, it has
\* returned True if a poll did not see the target (find raising included),
\* it has returned False only if every poll saw the target, and it has
\* returned True if the target was off the screen from the call on, for
\* every timeout.
C30_WaitVanish ==
    /\ vanish.pc # "raised"
    /\ VanishReturned =>
           /\ SawAbsent => vanish.ret = TRUE
           /\ vanish.ret = FALSE => ~SawAbsent
           /\ vanish.absent => vanish.ret = TRUE

=============================================================================
